---- MODULE Spec2Model ----
(***************************************************************************)
(* A model of privacy/optimizers/gaussian_query.py: the GaussianSumQuery   *)
(* and GaussianAverageQuery implementations of the DPQuery protocol.       *)
(*                                                                         *)
(* Numbers.  A float scalar or tensor element is modelled by the real      *)
(* number it stands for, computed exactly: a real is a finite sum of       *)
(* q * sqrt(d) with q rational and d squarefree (every value the queries   *)
(* produce from rational inputs has this form, because the only            *)
(* irrational operation is the square root inside the global norm), or     *)
(* the IEEE value NaN.  Floating-point rounding is not modelled.           *)
(*                                                                         *)
(* Execution.  The queries build TensorFlow operations; an operation runs  *)
(* when the runtime schedules it, after the operations it depends on.  A   *)
(* tensor handle is modelled by the value it has once run, and the model   *)
(* tracks separately which operations of the round have run.               *)
(***************************************************************************)
EXTENDS Integers, Sequences, FiniteSets, Bags, TLC

\* ------------------------------------------------------------------ bounds
MaxRecords == 2      \* accumulate_record calls per round
MaxRounds == 2       \* rounds per run

\* --------------------------------------------------------------- rationals
Abs(n) == IF n < 0 THEN -n ELSE n

RECURSIVE GCD(_, _)
GCD(a, b) == IF b = 0 THEN a ELSE GCD(b, a % b)

\* the rational n/d (d > 0) in lowest terms
Rat(n, d) == LET g == GCD(Abs(n), d) IN <<n \div g, d \div g>>

RatAdd(a, b) == Rat(a[1] * b[2] + b[1] * a[2], a[2] * b[2])
RatMul(a, b) == Rat(a[1] * b[1], a[2] * b[2])
RatNeg(a) == <<-a[1], a[2]>>
RatInv(a) == IF a[1] < 0 THEN Rat(-a[2], -a[1]) ELSE Rat(a[2], a[1])
RatLeq(a, b) == a[1] * b[2] <= b[1] * a[2]
RatSign(a) == IF a[1] < 0 THEN -1 ELSE IF a[1] = 0 THEN 0 ELSE 1

\* ------------------------------------------------------------------- reals
\* a real: c maps squarefree radicands d to nonzero rational coefficients
NoCoef == <<>>
NaN == [nan |-> TRUE, c |-> NoCoef]
Real(coef) == [nan |-> FALSE, c |-> coef]
Zero == Real(NoCoef)
OfRat(q) == IF q[1] = 0 THEN Zero ELSE Real(<<q>>)
Coef(x, d) == IF d \in DOMAIN x.c THEN x.c[d] ELSE <<0, 1>>
\* f restricted to ds, built entry by entry (so that TLC stores it evaluated)
RECURSIVE Restrict(_, _)
Restrict(f, ds) ==
  IF ds = {} THEN <<>>
  ELSE LET d == CHOOSE e \in ds : TRUE
       IN (d :> f[d]) @@ Restrict(f, ds \ {d})
\* the real with coefficients f, the zero ones dropped
Canon(f) == Real(Restrict(f, {e \in DOMAIN f : f[e][1] # 0}))

\* x + y (tf.add on one element); NaN propagates
RealAdd(x, y) ==
  IF x.nan \/ y.nan THEN NaN
  ELSE Canon([d \in DOMAIN x.c \cup DOMAIN y.c |-> RatAdd(Coef(x, d), Coef(y, d))])

RealNeg(x) == IF x.nan THEN NaN ELSE Canon([d \in DOMAIN x.c |-> RatNeg(x.c[d])])

\* x * (q * sqrt(r)), r squarefree: sqrt(d) * sqrt(r) = g * sqrt((d/g) * (r/g))
RealMulMono(x, q, r) ==
  IF x.nan THEN NaN
  ELSE LET Tgt(d) == (d \div GCD(d, r)) * (r \div GCD(d, r))
           Src(e) == CHOOSE d \in DOMAIN x.c : Tgt(d) = e
       IN Canon([e \in {Tgt(d) : d \in DOMAIN x.c} |->
                   RatMul(RatMul(x.c[Src(e)], q), <<GCD(Src(e), r), 1>>)])

RECURSIVE RealMulOver(_, _, _)
RealMulOver(x, y, ds) ==
  IF ds = {} THEN Zero
  ELSE LET d == CHOOSE e \in ds : TRUE
       IN RealAdd(RealMulMono(x, y.c[d], d), RealMulOver(x, y, ds \ {d}))

\* x * y
RealMul(x, y) == IF x.nan \/ y.nan THEN NaN ELSE RealMulOver(x, y, DOMAIN y.c)

IsRational(x) == ~x.nan /\ DOMAIN x.c \subseteq {1}
RatOf(x) == Coef(x, 1)

\* the largest s with s * s dividing n (n > 0), and sqrt(n) = s * sqrt(n / s^2)
SquarePart(n) == CHOOSE s \in 1..n : n % (s * s) = 0 /\ \A t \in (s + 1)..n : n % (t * t) # 0

\* ---------------------------------------- extended scalars q * sqrt(d), +inf
\* the operands of the scale computed by tf.clip_by_global_norm
Mono(q, d) == [inf |-> FALSE, nan |-> FALSE, q |-> q, d |-> IF q[1] = 0 THEN 1 ELSE d]
Inf == [inf |-> TRUE, nan |-> FALSE, q |-> <<0, 1>>, d |-> 1]
ExtNaN == [inf |-> FALSE, nan |-> TRUE, q |-> <<0, 1>>, d |-> 1]

\* sqrt(r) for a rational r = p/q >= 0: sqrt(p * q) / q
Sqrt(r) ==
  IF r[1] = 0 THEN Mono(<<0, 1>>, 1)
  ELSE LET n == r[1] * r[2]
           s == SquarePart(n)
       IN Mono(Rat(s, r[2]), n \div (s * s))

\* 1.0 / m in IEEE arithmetic: 1.0 / 0.0 = +inf;  1 / (q sqrt(d)) = sqrt(d) / (q d)
Reciprocal(m) ==
  IF m.q[1] = 0 THEN Inf ELSE Mono(RatInv(RatMul(m.q, <<m.d, 1>>)), m.d)

\* a <= b for finite a, b: by sign, then by the squares q^2 * d
MonoSq(m) == RatMul(RatMul(m.q, m.q), <<m.d, 1>>)
MonoLeq(a, b) ==
  LET sa == RatSign(a.q)
      sb == RatSign(b.q)
  IN IF sa # sb THEN sa < sb
     ELSE IF sa >= 0 THEN RatLeq(MonoSq(a), MonoSq(b))
     ELSE RatLeq(MonoSq(b), MonoSq(a))

\* tf.minimum
Minimum(a, b) ==
  IF a.inf THEN b ELSE IF b.inf THEN a ELSE IF MonoLeq(a, b) THEN a ELSE b

\* clip_norm * m in IEEE arithmetic: 0 * inf = NaN (m is +inf only when the
\* clip norm is 0, so a nonzero multiple of inf does not arise)
ScaleMul(clip_norm, m) ==
  IF m.inf THEN ExtNaN ELSE Mono(RatMul(clip_norm, m.q), m.d)

\* v * scale for a tensor element v
ElemMul(v, scale) == IF scale.nan THEN NaN ELSE RealMulMono(v, scale.q, scale.d)

\* ------------------------------------------------------ tensors and nests
\* A tensor is a rank-1 sequence of reals; its shape is its length.  A nested
\* structure is the sequence of its leaves in nest.flatten order, each with
\* the path that places it in the structure.
\* the sequence s with its elements computed: TLC would otherwise carry
\* [i \in 1..n |-> e] unevaluated into the state
Evaluated(s) == s \o <<>>

\* tf.to_float of a Python number
ToFloat(x) == Rat(x, 1)
Tensor(ints) == Evaluated([i \in 1..Len(ints) |-> OfRat(ToFloat(ints[i]))])
Leaf(t) == <<[path |-> <<>>, t |-> t]>>
Pair(a, b) == <<[path |-> <<1>>, t |-> a], [path |-> <<2>>, t |-> b]>>

flatten(structure) == Evaluated([i \in 1..Len(structure) |-> structure[i].t])
pack_sequence_as(structure, flat) ==
  Evaluated([i \in 1..Len(structure) |-> [path |-> structure[i].path, t |-> flat[i]]])

\* nest.assert_same_structure, which nest.map_structure applies to its arguments
SameStructure(a, b) ==
  Len(a) = Len(b) /\ \A i \in 1..Len(a) : a[i].path = b[i].path
SameShapes(a, b) ==
  SameStructure(a, b) /\ \A i \in 1..Len(a) : Len(a[i].t) = Len(b[i].t)

\* tf.zeros_like
zeros_like(t) == Evaluated([i \in 1..Len(t) |-> Zero])

\* tf.add broadcasts a length-1 operand; other unequal shapes are rejected
Broadcastable(a, b) == Len(a) = Len(b) \/ Len(a) = 1 \/ Len(b) = 1
At(t, i) == IF Len(t) = 1 THEN t[1] ELSE t[i]
add(a, b) ==
  LET n == IF Len(a) >= Len(b) THEN Len(a) ELSE Len(b)
  IN Evaluated([i \in 1..n |-> RealAdd(At(a, i), At(b, i))])

\* tf.truediv(v, d) for a nonzero scalar d
truediv(t, d) == Evaluated([i \in 1..Len(t) |-> RealMulMono(t[i], RatInv(d), 1)])

\* --------------------------------------------------- tf.clip_by_global_norm
RECURSIVE SumSeq(_, _)
SumSeq(f, n) == IF n = 0 THEN Zero ELSE RealAdd(f[n], SumSeq(f, n - 1))

SquaredSum(t) == SumSeq([i \in 1..Len(t) |-> RealMul(t[i], t[i])], Len(t))

\* sum of the squares of all elements of all tensors of the list, jointly
GlobalSquaredSum(t_list) ==
  SumSeq([i \in 1..Len(t_list) |-> SquaredSum(t_list[i])], Len(t_list))

\* sqrt(sum_i l2norm(t_i)^2); the records of the model have rational elements
global_norm(t_list) == Sqrt(RatOf(GlobalSquaredSum(t_list)))

ClipScale(use_norm, clip_norm) ==
  ScaleMul(clip_norm, Minimum(Reciprocal(use_norm), Reciprocal(Mono(clip_norm, 1))))

\* mutant: every tensor clipped by its own norm, as tf.clip_by_norm per leaf
ClipPerLeaf(t_list, clip_norm) ==
  <<Evaluated([i \in 1..Len(t_list) |->
       Evaluated([j \in 1..Len(t_list[i]) |->
          ElemMul(t_list[i][j], ClipScale(global_norm(<<t_list[i]>>), clip_norm))])]),
    global_norm(t_list)>>

\* returns <<list_clipped, global_norm>>
clip_by_global_norm(t_list, clip_norm) ==
  LET use_norm == global_norm(t_list)
      scale == ClipScale(use_norm, clip_norm)
  IN <<Evaluated([i \in 1..Len(t_list) |->
          Evaluated([j \in 1..Len(t_list[i]) |-> ElemMul(t_list[i][j], scale)])]),
       use_norm>>

\* ------------------------------------------------------------------ inputs
ClipArgs == {-1, 0, 1}
StddevArgs == {-1, 0, 1}
DenominatorArgs == {3}
\* the standard-normal samples tf.random_normal may draw for one element
NormalDraws == {-1, 2}

\* records (and templates) the caller may supply
Records ==
  { Leaf(Tensor(<<3>>)), Leaf(Tensor(<<4>>)), Leaf(Tensor(<<0>>)),
    Leaf(Tensor(<<-1, 1>>)), Leaf(Tensor(<<1, 2, 2>>)),
    Pair(Tensor(<<3>>), Tensor(<<4>>)), Pair(Tensor(<<0>>), Tensor(<<1>>)) }
Templates ==
  { Leaf(Tensor(<<0>>)), Pair(Tensor(<<0>>), Tensor(<<0>>)) }

NoStructure == <<>>
None == "None"

\* ---------------------------------------------------------- GaussianSumQuery
GaussianSumQuery(l2_norm_clip, stddev, ledger) ==
  [_l2_norm_clip |-> ToFloat(l2_norm_clip),
   _stddev |-> ToFloat(stddev),
   _ledger |-> ledger]

Sum_initial_global_state(self) == None

Sum_derive_sample_params(self, gs) == self._l2_norm_clip

\* mutant: the query recorded twice per round
DependenciesTwice(self) ==
  IF self._ledger
  THEN <<[op |-> "record_sum_query", args |-> <<self._l2_norm_clip, self._stddev>>],
         [op |-> "record_sum_query", args |-> <<self._l2_norm_clip, self._stddev>>]>>
  ELSE <<>>

\* the operations initial_sample_state makes the zero tensors depend on
Dependencies(self) ==
  IF self._ledger
  THEN <<[op |-> "record_sum_query", args |-> <<self._l2_norm_clip, self._stddev>>]>>
  ELSE <<>>

\* nest.map_structure(tf.zeros_like, tensors)
Sum_initial_sample_state(self, gs, tensors) ==
  pack_sequence_as(tensors, [i \in 1..Len(tensors) |-> zeros_like(tensors[i].t)])

\* nest.map_structure(tf.add, sample_state, clipped) raises on these
StructureError(ss, record) == ~SameStructure(ss, record)
ShapeError(ss, record) ==
  SameStructure(ss, record)
  /\ \E i \in 1..Len(ss) : ~Broadcastable(ss[i].t, record[i].t)

\* the local clipped of accumulate_record_impl
Clipped(params, record) ==
  pack_sequence_as(record, clip_by_global_norm(flatten(record), params)[1])

\* nest.map_structure(tf.add, sample_state, clipped)
AddStructure(ss, clipped) ==
  Evaluated([i \in 1..Len(ss) |-> [path |-> ss[i].path, t |-> add(ss[i].t, clipped[i].t)]])

\* mutant: the clip applied to the running sum instead of the record
AccumulateThenClip(params, ss, record) ==
  LET summed == AddStructure(ss, record)
      cn == clip_by_global_norm(flatten(summed), params)
  IN <<pack_sequence_as(summed, cn[1]), cn[2]>>

\* returns <<new sample state, global norm>>
accumulate_record_impl(params, ss, record) ==
  LET l2_norm_clip == params
      record_as_list == flatten(record)
      norm == clip_by_global_norm(record_as_list, l2_norm_clip)[2]
      clipped == Clipped(l2_norm_clip, record)
  IN <<AddStructure(ss, clipped), norm>>

Sum_accumulate_record(params, ss, record) == accumulate_record_impl(params, ss, record)[1]

\* mutant: unit-variance noise, the stddev argument dropped
AddUnscaledNoise(v, z, stddev) ==
  Evaluated([i \in 1..Len(v) |-> RealAdd(v[i], OfRat(ToFloat(z[i])))])

\* v + tf.random_normal(tf.shape(v), stddev): the draw z scaled by stddev
add_noise(v, z, stddev) ==
  Evaluated([i \in 1..Len(v) |-> RealAdd(v[i], OfRat(RatMul(ToFloat(z[i]), stddev)))])

\* returns <<estimate, new global state>>; z holds the normal draws per leaf
Sum_get_noised_result(self, ss, gs, z) ==
  <<Evaluated([i \in 1..Len(ss) |->
       [path |-> ss[i].path, t |-> add_noise(ss[i].t, z[i], self._stddev)]]),
    gs>>

\* ------------------------------------------------------ GaussianAverageQuery
GaussianAverageQuery(l2_norm_clip, sum_stddev, denominator, ledger) ==
  [_numerator |-> GaussianSumQuery(l2_norm_clip, sum_stddev, ledger),
   _denominator |-> ToFloat(denominator)]

Avg_initial_global_state(self) == Sum_initial_global_state(self._numerator)
Avg_derive_sample_params(self, gs) == Sum_derive_sample_params(self._numerator, gs)
Avg_initial_sample_state(self, gs, tensors) ==
  Sum_initial_sample_state(self._numerator, gs, tensors)
Avg_accumulate_record(params, ss, record) == Sum_accumulate_record(params, ss, record)

\* mutant: the noised sum multiplied by the denominator
NormalizeByMultiplying(v, denominator) ==
  Evaluated([i \in 1..Len(v) |-> RealMulMono(v[i], denominator, 1)])

normalize(v, denominator) == truediv(v, denominator)

Avg_get_noised_result(self, ss, gs, z) ==
  LET r == Sum_get_noised_result(self._numerator, ss, gs, z)
      noised == r[1]
  IN <<Evaluated([i \in 1..Len(noised) |->
          [path |-> noised[i].path, t |-> normalize(noised[i].t, self._denominator)]]),
       r[2]>>

\* ------------------------------------------------------------------- state
VARIABLES
  query,         \* the constructed query: [kind, obj]
  phase,         \* the caller's position in the DPQuery protocol
  round,         \* rounds started so far
  global_state,  \* the global state the caller threads from round to round
  params,        \* what derive_sample_params returned for this round
  template,      \* the tensors given to initial_sample_state
  sample_state,  \* the sample state the caller holds
  prev_state,    \* the sample state passed to the last accumulate_record call
  last_record,   \* the record passed to the last accumulate_record call
  last_clipped,  \* the clipped record the last accumulate_record call computed
  raised,        \* the error the last accumulate_record call raised, or "none"
  accumulated,   \* bag of the records accumulated into sample_state this round
  pending,       \* ledger operations created and not yet run
  control,       \* control inputs of this round's zero tensors
  ran,           \* operations of this round that have run: [zeros, adds, noise]
  ledger,        \* the ledger's log: the <<l2_norm_clip, stddev>> pairs recorded
  noised_sum,    \* the numerator's noised result of the last release
  estimate       \* the estimate of the last release

\* what the last accumulate_record call was given and did
call == <<prev_state, last_record, last_clipped, raised>>
\* what the runtime has created and run
runtime == <<pending, control, ran, ledger>>
\* what the last release returned
release == <<noised_sum, estimate>>

vars == <<query, phase, round, global_state, params, template, sample_state,
          accumulated, call, runtime, release>>

IsAverage == query.kind = "GaussianAverageQuery"
Numerator == IF IsAverage THEN query.obj._numerator ELSE query.obj

NothingRan == [zeros |-> FALSE, adds |-> 0, noise |-> FALSE]

\* the state after construction: __init__ accepts every argument it is given
Init ==
  /\ \E c \in ClipArgs, s \in StddevArgs, l \in BOOLEAN :
       \/ query = [kind |-> "GaussianSumQuery", obj |-> GaussianSumQuery(c, s, l)]
       \/ \E d \in DenominatorArgs :
            query = [kind |-> "GaussianAverageQuery",
                     obj |-> GaussianAverageQuery(c, s, d, l)]
  /\ phase = "Constructed"
  /\ round = 0
  /\ global_state = "unset"
  /\ params = <<0, 1>>
  /\ template = NoStructure
  /\ sample_state = NoStructure
  /\ prev_state = NoStructure
  /\ last_record = NoStructure
  /\ last_clipped = NoStructure
  /\ raised = "none"
  /\ accumulated = EmptyBag
  /\ pending = <<>>
  /\ control = <<>>
  /\ ran = NothingRan
  /\ ledger = <<>>
  /\ noised_sum = NoStructure
  /\ estimate = NoStructure

InitialGlobalState ==
  /\ phase = "Constructed"
  /\ global_state' = IF IsAverage THEN Avg_initial_global_state(query.obj)
                     ELSE Sum_initial_global_state(query.obj)
  /\ phase' = "AwaitingParams"
  /\ UNCHANGED <<query, round, params, template, sample_state, accumulated,
                 call, runtime, release>>

\* a round begins: the first one, or the next after a release has run
DeriveSampleParams ==
  /\ \/ phase = "AwaitingParams"
     \/ phase = "Released" /\ ran.noise /\ round < MaxRounds
  /\ params' = IF IsAverage THEN Avg_derive_sample_params(query.obj, global_state)
               ELSE Sum_derive_sample_params(query.obj, global_state)
  /\ round' = round + 1
  /\ phase' = "AwaitingState"
  /\ template' = NoStructure
  /\ sample_state' = NoStructure
  /\ prev_state' = NoStructure
  /\ last_record' = NoStructure
  /\ last_clipped' = NoStructure
  /\ raised' = "none"
  /\ accumulated' = EmptyBag
  /\ control' = <<>>
  /\ ran' = NothingRan
  /\ noised_sum' = NoStructure
  /\ estimate' = NoStructure
  /\ UNCHANGED <<query, global_state, pending, ledger>>

\* mutant: the zero tensors built outside tf.control_dependencies
NoControlDependencies(dependencies) == <<>>

\* with tf.control_dependencies(dependencies): the zero tensors wait for them
ControlDependencies(dependencies) == dependencies

InitialSampleState(tensors) ==
  /\ phase = "AwaitingState"
  /\ LET dependencies == Dependencies(Numerator)
     IN /\ pending' = pending \o dependencies
        /\ control' = ControlDependencies(dependencies)
  /\ sample_state' = IF IsAverage
                     THEN Avg_initial_sample_state(query.obj, global_state, tensors)
                     ELSE Sum_initial_sample_state(query.obj, global_state, tensors)
  /\ template' = tensors
  /\ phase' = "Accumulating"
  /\ UNCHANGED <<query, round, global_state, params, accumulated, ran,
                 ledger, call, release>>

\* the runtime runs a ledger operation: ledger.record_sum_query(l2_norm_clip, stddev)
RunRecordSumQuery ==
  /\ pending # <<>>
  /\ ledger' = Append(ledger, Head(pending).args)
  /\ pending' = Tail(pending)
  /\ UNCHANGED <<query, phase, round, global_state, params, template,
                 sample_state, accumulated, control, ran, call, release>>

\* the runtime runs the zeros_like operations, once their control inputs have run
RunZeros ==
  /\ phase \in {"Accumulating", "Released"}
  /\ ~ran.zeros
  /\ \A i \in 1..Len(control) : \A j \in 1..Len(pending) : pending[j] # control[i]
  /\ ran' = [ran EXCEPT !.zeros = TRUE]
  /\ UNCHANGED <<query, phase, round, global_state, params, template,
                 sample_state, accumulated, pending, control, ledger, call,
                 release>>

AccumulateRecord(record) ==
  /\ phase = "Accumulating"
  /\ BagCardinality(accumulated) < MaxRecords
  /\ prev_state' = sample_state
  /\ last_record' = record
  /\ last_clipped' = Clipped(params, record)
  /\ IF StructureError(sample_state, record)
     THEN /\ raised' = "structure"
          /\ UNCHANGED <<sample_state, accumulated>>
     ELSE IF ShapeError(sample_state, record)
     THEN /\ raised' = "shape"
          /\ UNCHANGED <<sample_state, accumulated>>
     ELSE /\ raised' = "none"
          /\ sample_state' = IF IsAverage
                             THEN Avg_accumulate_record(params, sample_state, record)
                             ELSE Sum_accumulate_record(params, sample_state, record)
          /\ accumulated' = accumulated (+) SetToBag({record})
  /\ UNCHANGED <<query, phase, round, global_state, params, template,
                 runtime, release>>

\* the runtime runs the next tf.add of the round: it reads the previous sample state
RunAdd ==
  /\ ran.zeros
  /\ ran.adds < BagCardinality(accumulated)
  /\ ran' = [ran EXCEPT !.adds = @ + 1]
  /\ UNCHANGED <<query, phase, round, global_state, params, template,
                 sample_state, accumulated, pending, control, ledger, call,
                 release>>

\* the draws tf.random_normal(tf.shape(v)) can make for every leaf v of ss
RECURSIVE DrawsFor(_)
DrawsFor(ss) ==
  IF ss = <<>> THEN {<<>>}
  ELSE {<<t>> \o rest : t \in [1..Len(Head(ss).t) -> NormalDraws],
                        rest \in DrawsFor(Tail(ss))}

\* the caller asks for the release; its value exists once the release has run
GetNoisedResult ==
  /\ phase = "Accumulating"
  /\ phase' = "Released"
  /\ UNCHANGED <<query, round, global_state, params, template, sample_state,
                 accumulated, call, runtime, release>>

\* the runtime runs the release built by get_noised_result: it reads the final
\* sample state and draws the noise z
RunNoise ==
  /\ phase = "Released"
  /\ ~ran.noise
  /\ ran.zeros
  /\ ran.adds = BagCardinality(accumulated)
  /\ \E z \in DrawsFor(sample_state) :
       LET sum == Sum_get_noised_result(Numerator, sample_state, global_state, z)
           res == IF IsAverage
                  THEN Avg_get_noised_result(query.obj, sample_state, global_state, z)
                  ELSE sum
       IN /\ noised_sum' = sum[1]
          /\ estimate' = res[1]
          /\ global_state' = res[2]
  /\ ran' = [ran EXCEPT !.noise = TRUE]
  /\ UNCHANGED <<query, phase, round, params, template, sample_state,
                 accumulated, pending, control, ledger, call>>

Next ==
  \/ InitialGlobalState
  \/ DeriveSampleParams
  \/ \E tensors \in Templates : InitialSampleState(tensors)
  \/ RunRecordSumQuery
  \/ RunZeros
  \/ \E record \in Records : AccumulateRecord(record)
  \/ RunAdd
  \/ GetNoisedResult
  \/ RunNoise

Spec == Init /\ [][Next]_vars

\* ================================================================== claims
\* helpers of the formulas
Accumulated == last_record # NoStructure /\ raised = "none"
Square(q) == RatMul(q, q)
\* the squared global norm of a structure, over all its leaves jointly
NormSq(structure) == GlobalSquaredSum(flatten(structure))
Elements(structure) ==
  {<<i, j>> \in (1..Len(structure)) \X (1..3) : j <= Len(structure[i].t)}
El(structure, e) == structure[e[1]].t[e[2]]
\* x - y, elementwise over two structures of the same shapes
Minus(x, y) ==
  [i \in 1..Len(x) |->
     [path |-> x[i].path,
      t |-> [j \in 1..Len(x[i].t) |-> RealAdd(x[i].t[j], RealNeg(y[i].t[j]))]]]
HasNaN(structure) == \E e \in Elements(structure) : El(structure, e).nan
\* the sign of a real with at most one radical
Sign(x) == IF DOMAIN x.c = {} THEN 0 ELSE RatSign(x.c[CHOOSE d \in DOMAIN x.c : TRUE])

\* C1, for clip norms c >= 0: when the record's global norm, taken over all
\* leaves jointly, exceeds c, the clipped record that accumulate_record adds to the
\* sample state has global norm c, is parallel to the record, and points the
\* same way: each element is the record's element times c / norm.
C1_ClippedToClipNorm ==
  (/\ Accumulated
   /\ RatSign(params) >= 0
   /\ ~RatLeq(RatOf(NormSq(last_record)), Square(params)))
  => /\ sample_state = AddStructure(prev_state, last_clipped)
     /\ NormSq(last_clipped) = OfRat(Square(params))
     /\ \A a, b \in Elements(last_record) :
          RealMul(El(last_clipped, a), El(last_record, b))
            = RealMul(El(last_clipped, b), El(last_record, a))
     /\ \A a \in Elements(last_record) :
          Sign(El(last_clipped, a)) = Sign(El(last_record, a)) * RatSign(params)

\* C1 witness: a two-leaf record of global norm 5 was accumulated under clip norm 1
C1_Witness ==
  /\ Accumulated
  /\ params = ToFloat(1)
  /\ last_record = Pair(Tensor(<<3>>), Tensor(<<4>>))
  /\ sample_state # prev_state

\* C1, for every clip norm derive_sample_params can return: when the record's
\* global norm exceeds the clip norm, the clipped record has global norm equal
\* to the clip norm and each element is the record's element times
\* clip norm / norm.  A negative clip norm is below every norm.
C1_ClippedForEveryClipNorm ==
  (/\ Accumulated
   /\ \/ RatSign(params) < 0
      \/ ~RatLeq(RatOf(NormSq(last_record)), Square(params)))
  => /\ sample_state = AddStructure(prev_state, last_clipped)
     /\ RatSign(params) >= 0
     /\ NormSq(last_clipped) = OfRat(Square(params))
     /\ \A a, b \in Elements(last_record) :
          RealMul(El(last_clipped, a), El(last_record, b))
            = RealMul(El(last_clipped, b), El(last_record, a))
     /\ \A a \in Elements(last_record) :
          Sign(El(last_clipped, a)) = Sign(El(last_record, a)) * RatSign(params)

\* C2: a record whose global norm is at most the clip norm c >= 0 is added
\* unscaled, the zero record included, with no 0/0.
C2_UnscaledWithinClip ==
  (/\ Accumulated
   /\ SameShapes(prev_state, last_record)
   /\ RatSign(params) >= 0
   /\ RatLeq(RatOf(NormSq(last_record)), Square(params)))
  => /\ last_clipped = last_record
     /\ sample_state = AddStructure(prev_state, last_record)

\* the orders in which a bag of records can be accumulated
Orders(bag) ==
  {o \in [1..BagCardinality(bag) -> BagToSet(bag)] :
     \A r \in BagToSet(bag) :
       Cardinality({i \in 1..BagCardinality(bag) : o[i] = r}) = CopiesIn(r, bag)}
RECURSIVE Fold(_, _, _)
Fold(p, ss, records) ==
  IF records = <<>> THEN ss
  ELSE Fold(p, Sum_accumulate_record(p, ss, Head(records)), Tail(records))
\* C3: folding the accumulated records of a round, all of the template's
\* structure, into the zero sample state in any order gives the sample state
\* the round arrived at.
C3_OrderIndependent ==
  (/\ phase = "Accumulating"
   /\ \A r \in BagToSet(accumulated) : SameShapes(template, r))
  => \A o \in Orders(accumulated) :
       Fold(params, Sum_initial_sample_state(Numerator, global_state, template), o)
         = sample_state

\* C3 witness: two different records whose clipped sums involve different radicals
C3_Witness ==
  /\ BagToSet(accumulated) = {Pair(Tensor(<<3>>), Tensor(<<4>>)),
                              Pair(Tensor(<<0>>), Tensor(<<1>>))}
  /\ params = ToFloat(1)
  /\ last_record = Pair(Tensor(<<3>>), Tensor(<<4>>))

\* the round's release has run
RoundComplete == phase = "Released" /\ ran.noise
\* C4: with a ledger, the rounds started so far have made at most one
\* record_sum_query call each, a completed round has made exactly one, and
\* every call carried the clip norm derive_sample_params returns and the
\* query's stddev.
C4_OneLedgerEntryPerRound ==
  Numerator._ledger
  => /\ Len(ledger) + Len(pending) <= round
     /\ RoundComplete => Len(ledger) = round
     /\ \A i \in 1..Len(ledger) :
          ledger[i] = <<Sum_derive_sample_params(Numerator, global_state),
                        Numerator._stddev>>
     /\ Len(ledger) > 0 => ledger[Len(ledger)][1] = params

\* C4 witness: the second round of a query with a ledger is complete
C4_Witness ==
  /\ Numerator._ledger
  /\ RoundComplete
  /\ round = 2
  /\ Len(ledger) = 2
  /\ BagCardinality(accumulated) > 0

\* C5: with a ledger, no tf.add of a round has run, and so no record has
\* reached the round's sample state, while the round's ledger entry is missing.
C5_RecordedBeforeAccumulation ==
  (Numerator._ledger /\ round >= 1 /\ (ran.zeros \/ ran.adds > 0 \/ ran.noise))
  => Len(ledger) >= round

\* C5 witness: an accumulation of the second round has run, after the round's entry
C5_Witness ==
  /\ Numerator._ledger
  /\ round = 2
  /\ phase = "Accumulating"
  /\ ran.adds > 0
  /\ Len(ledger) = 2

\* C6: the average query's estimate is the numerator's noised result divided
\* elementwise by the denominator given at construction (estimate * D is the
\* noised sum), whatever the number of records, and the global state returned is
\* the numerator's.
C6_AverageIsSumOverDenominator ==
  (IsAverage /\ RoundComplete)
  => /\ SameShapes(estimate, noised_sum)
     /\ \A e \in Elements(noised_sum) :
          RealMulMono(El(estimate, e), query.obj._denominator, 1) = El(noised_sum, e)
     /\ global_state = Sum_initial_global_state(Numerator)

\* C6 witness: an average was released after two records, with a nonzero noised sum
C6_Witness ==
  /\ IsAverage
  /\ RoundComplete
  /\ BagCardinality(accumulated) = 2
  /\ \E e \in Elements(noised_sum) :
       ~El(noised_sum, e).nan /\ El(noised_sum, e) # Zero

\* C7: no query object holds a negative clip norm or a negative stddev.
C7_NoNegativeParameters ==
  RatSign(Numerator._l2_norm_clip) >= 0 /\ RatSign(Numerator._stddev) >= 0

\* C8: an accumulate_record call whose record does not match the round's
\* template in structure or per-leaf shape raises, and leaves the sample state
\* as it was.
C8_MismatchRaises ==
  (last_record # NoStructure /\ ~SameShapes(template, last_record))
  => raised # "none" /\ sample_state = prev_state

\* C9: with stddev 0 the release of a sum query is the sample state itself,
\* with the global state it was given; clip norm 1 and the records 3.0 and 4.0
\* release exactly 2.0.
C9_ZeroStddevIsIdentity ==
  (RoundComplete /\ Numerator._stddev = ToFloat(0))
  => /\ noised_sum = sample_state
     /\ ~IsAverage => estimate = sample_state
     /\ global_state = Sum_initial_global_state(Numerator)
     /\ (/\ ~IsAverage
         /\ Numerator._l2_norm_clip = ToFloat(1)
         /\ template = Leaf(Tensor(<<0>>))
         /\ accumulated = SetToBag({Leaf(Tensor(<<3>>)), Leaf(Tensor(<<4>>))}))
        => estimate = Leaf(Tensor(<<2>>))

\* C9 witness: the end-to-end round with records 3.0 and 4.0 has been released
C9_Witness ==
  /\ RoundComplete
  /\ ~IsAverage
  /\ Numerator._stddev = ToFloat(0)
  /\ Numerator._l2_norm_clip = ToFloat(1)
  /\ accumulated = SetToBag({Leaf(Tensor(<<3>>)), Leaf(Tensor(<<4>>))})
  /\ estimate = Leaf(Tensor(<<2>>))

\* C10: for a clip norm c >= 0 and a record of the sample state's structure,
\* the sample state accumulate_record returns differs from the one it was
\* given by a vector of global norm at most c.
C10_SensitivityBound ==
  (/\ Accumulated
   /\ SameShapes(prev_state, last_record)
   /\ RatSign(params) >= 0)
  => LET d == NormSq(Minus(sample_state, prev_state))
     IN IsRational(d) /\ RatLeq(RatOf(d), Square(params))

====
